---- MODULE Spec2Model ----
(***************************************************************************)
(* Aviator AI Predictor: the rule-based classifier analyzeHistory, the     *)
(* input validator validateAndParseInput and the App component's state     *)
(* (React hooks) with its event handlers and timers.                       *)
(*                                                                         *)
(* Numbers are fixed-point hundredths: 1.20 is 120, 5 is 500.  Every       *)
(* number the model feeds in has at most two fractional digits, for which  *)
(* the double comparisons of the source agree with the integer ones.       *)
(* A string is a sequence of one-character strings.                        *)
(* null is the record Null; every nullable value is a record.              *)
(***************************************************************************)
EXTENDS Integers, Sequences, FiniteSets, TLC

VARIABLES
    historyInput,               \* useState<string>('')
    prediction,                 \* useState<PredictionResult | null>(null)
    error,                      \* useState<string | null>(null)
    isLoading,                  \* useState<boolean>(false)
    selectedHistoryLength,      \* useState<number>(DEFAULT_HISTORY_LENGTH)
    showFeedbackOptions,        \* useState<boolean>(false)
    lastPredictionForFeedback,  \* useState<PredictionResult | null>(null)
    feedbackMessage,            \* useState<string | null>(null)
    predictTimer,               \* the pending setTimeout(..., 700) callbacks, oldest first: the closure of each
    feedbackTimers,             \* number of pending setTimeout(() => setFeedbackMessage(null), 3000)
    parsedHistory,              \* what validateAndParseInput returned for the outcome on display
    analyzeArg                  \* the history analyzeHistory was invoked with for that outcome

vars == <<historyInput, prediction, error, isLoading, selectedHistoryLength,
          showFeedbackOptions, lastPredictionForFeedback, feedbackMessage,
          predictTimer, feedbackTimers, parsedHistory, analyzeArg>>

Null == [null |-> TRUE]

NotCalled == [tag |-> "notcalled"]

----------------------------------------------------------------------------
(* types.ts / constants.ts *)

PredictionCategory == {"BREAKOUT", "COOLDOWN", "STABLE", "LOW", "NONE"}

BREAKOUT_THRESHOLD_COUNT_LT_2X == 5

BREAKOUT_THRESHOLD_COUNT_LTE_1_2X == 2

COOLDOWN_THRESHOLD_GT_5X == 500

STABLE_LOWER_BOUND == 200

STABLE_UPPER_BOUND == 400

STABLE_HISTORY_COUNT == 3

DEFAULT_HISTORY_LENGTH == 6

\* the literal 2 of val < 2
TWO_X == 200

\* the literal 1.20 of val <= 1.20
ONE_POINT_TWO_X == 120

\* the literal 2 of currentHistoryLength < 2
MIN_HISTORY_LENGTH == 2

PREDICTION_DETAILS ==
    [c \in PredictionCategory |->
       CASE c = "BREAKOUT" -> [range |-> "3.00x - 8.00x", label |-> "Breakout Likely!",
                               colorClass |-> "bg-green-800/40", textColorClass |-> "text-green-300",
                               borderColorClass |-> "border-green-500"]
         [] c = "COOLDOWN" -> [range |-> "1.10x - 2.00x", label |-> "Cooldown Period",
                               colorClass |-> "bg-red-800/40", textColorClass |-> "text-red-300",
                               borderColorClass |-> "border-red-500"]
         [] c = "STABLE"   -> [range |-> "2.00x - 4.00x", label |-> "Stable Pattern",
                               colorClass |-> "bg-blue-800/40", textColorClass |-> "text-blue-300",
                               borderColorClass |-> "border-blue-500"]
         [] c = "LOW"      -> [range |-> "1.10x - 1.80x", label |-> "Low Multiplier Expected",
                               colorClass |-> "bg-yellow-800/40", textColorClass |-> "text-yellow-300",
                               borderColorClass |-> "border-yellow-500"]
         [] c = "NONE"     -> [range |-> "N/A", label |-> "Enter history to predict",
                               colorClass |-> "bg-slate-700", textColorClass |-> "text-slate-300",
                               borderColorClass |-> "border-slate-600"]]

\* { category: c, ...PREDICTION_DETAILS[c] }
PredictionResult(c) == [category |-> c] @@ PREDICTION_DETAILS[c]

----------------------------------------------------------------------------
(* services/predictionService.ts *)

\* history.filter(pred).length, pred given as the set of values it accepts
RECURSIVE CountIn(_, _)
CountIn(history, accepted) ==
    IF history = <<>> THEN 0
    ELSE (IF Head(history) \in accepted THEN 1 ELSE 0) + CountIn(Tail(history), accepted)

\* history.slice(-n)
SliceLast(history, n) ==
    IF Len(history) <= n THEN history
    ELSE SubSeq(history, Len(history) - n + 1, Len(history))

\* the values of a history, as a set
Values(history) == {history[i] : i \in 1..Len(history)}

\* variant: the BREAKOUT rule ahead of the COOLDOWN rule
analyzeHistory_BreakoutFirst(history) ==
    LET currentHistoryLength == Len(history)
        countLessThan2x == CountIn(history, {v \in Values(history) : v < TWO_X})
        countLessThanOrEqualTo1_20x == CountIn(history, {v \in Values(history) : v <= ONE_POINT_TWO_X})
        lastNValuesForStableRule == SliceLast(history, STABLE_HISTORY_COUNT)
    IN  IF currentHistoryLength < MIN_HISTORY_LENGTH THEN PredictionResult("LOW")
        ELSE IF /\ currentHistoryLength >= BREAKOUT_THRESHOLD_COUNT_LT_2X
                /\ countLessThan2x >= BREAKOUT_THRESHOLD_COUNT_LT_2X
                /\ countLessThanOrEqualTo1_20x >= BREAKOUT_THRESHOLD_COUNT_LTE_1_2X
             THEN PredictionResult("BREAKOUT")
        ELSE IF history[Len(history)] > COOLDOWN_THRESHOLD_GT_5X THEN PredictionResult("COOLDOWN")
        ELSE IF /\ currentHistoryLength >= STABLE_HISTORY_COUNT
                /\ Len(lastNValuesForStableRule) = STABLE_HISTORY_COUNT
                /\ \A i \in 1..Len(lastNValuesForStableRule) :
                      /\ lastNValuesForStableRule[i] >= STABLE_LOWER_BOUND
                      /\ lastNValuesForStableRule[i] <= STABLE_UPPER_BOUND
             THEN PredictionResult("STABLE")
        ELSE PredictionResult("LOW")

\* variant: the STABLE bounds exclusive
analyzeHistory_StableExclusive(history) ==
    LET currentHistoryLength == Len(history)
        countLessThan2x == CountIn(history, {v \in Values(history) : v < TWO_X})
        countLessThanOrEqualTo1_20x == CountIn(history, {v \in Values(history) : v <= ONE_POINT_TWO_X})
        lastNValuesForStableRule == SliceLast(history, STABLE_HISTORY_COUNT)
    IN  IF currentHistoryLength < MIN_HISTORY_LENGTH THEN PredictionResult("LOW")
        ELSE IF history[Len(history)] > COOLDOWN_THRESHOLD_GT_5X THEN PredictionResult("COOLDOWN")
        ELSE IF /\ currentHistoryLength >= BREAKOUT_THRESHOLD_COUNT_LT_2X
                /\ countLessThan2x >= BREAKOUT_THRESHOLD_COUNT_LT_2X
                /\ countLessThanOrEqualTo1_20x >= BREAKOUT_THRESHOLD_COUNT_LTE_1_2X
             THEN PredictionResult("BREAKOUT")
        ELSE IF /\ currentHistoryLength >= STABLE_HISTORY_COUNT
                /\ Len(lastNValuesForStableRule) = STABLE_HISTORY_COUNT
                /\ \A i \in 1..Len(lastNValuesForStableRule) :
                      /\ lastNValuesForStableRule[i] > STABLE_LOWER_BOUND
                      /\ lastNValuesForStableRule[i] < STABLE_UPPER_BOUND
             THEN PredictionResult("STABLE")
        ELSE PredictionResult("LOW")

\* variant: the fallback returns NONE
analyzeHistory_NoneFallback(history) ==
    LET currentHistoryLength == Len(history)
        countLessThan2x == CountIn(history, {v \in Values(history) : v < TWO_X})
        countLessThanOrEqualTo1_20x == CountIn(history, {v \in Values(history) : v <= ONE_POINT_TWO_X})
        lastNValuesForStableRule == SliceLast(history, STABLE_HISTORY_COUNT)
    IN  IF currentHistoryLength < MIN_HISTORY_LENGTH THEN PredictionResult("LOW")
        ELSE IF history[Len(history)] > COOLDOWN_THRESHOLD_GT_5X THEN PredictionResult("COOLDOWN")
        ELSE IF /\ currentHistoryLength >= BREAKOUT_THRESHOLD_COUNT_LT_2X
                /\ countLessThan2x >= BREAKOUT_THRESHOLD_COUNT_LT_2X
                /\ countLessThanOrEqualTo1_20x >= BREAKOUT_THRESHOLD_COUNT_LTE_1_2X
             THEN PredictionResult("BREAKOUT")
        ELSE IF /\ currentHistoryLength >= STABLE_HISTORY_COUNT
                /\ Len(lastNValuesForStableRule) = STABLE_HISTORY_COUNT
                /\ \A i \in 1..Len(lastNValuesForStableRule) :
                      /\ lastNValuesForStableRule[i] >= STABLE_LOWER_BOUND
                      /\ lastNValuesForStableRule[i] <= STABLE_UPPER_BOUND
             THEN PredictionResult("STABLE")
        ELSE PredictionResult("NONE")

\* variant: the COOLDOWN rule ahead of the length guard
analyzeHistory_CooldownBeforeLength(history) ==
    LET currentHistoryLength == Len(history)
        countLessThan2x == CountIn(history, {v \in Values(history) : v < TWO_X})
        countLessThanOrEqualTo1_20x == CountIn(history, {v \in Values(history) : v <= ONE_POINT_TWO_X})
        lastNValuesForStableRule == SliceLast(history, STABLE_HISTORY_COUNT)
    IN  IF currentHistoryLength >= 1 /\ history[Len(history)] > COOLDOWN_THRESHOLD_GT_5X
        THEN PredictionResult("COOLDOWN")
        ELSE IF currentHistoryLength < MIN_HISTORY_LENGTH THEN PredictionResult("LOW")
        ELSE IF /\ currentHistoryLength >= BREAKOUT_THRESHOLD_COUNT_LT_2X
                /\ countLessThan2x >= BREAKOUT_THRESHOLD_COUNT_LT_2X
                /\ countLessThanOrEqualTo1_20x >= BREAKOUT_THRESHOLD_COUNT_LTE_1_2X
             THEN PredictionResult("BREAKOUT")
        ELSE IF /\ currentHistoryLength >= STABLE_HISTORY_COUNT
                /\ Len(lastNValuesForStableRule) = STABLE_HISTORY_COUNT
                /\ \A i \in 1..Len(lastNValuesForStableRule) :
                      /\ lastNValuesForStableRule[i] >= STABLE_LOWER_BOUND
                      /\ lastNValuesForStableRule[i] <= STABLE_UPPER_BOUND
             THEN PredictionResult("STABLE")
        ELSE PredictionResult("LOW")

\* variant: the STABLE rule looks at the slice without checking any length
analyzeHistory_NoStableLengthGuard(history) ==
    LET currentHistoryLength == Len(history)
        countLessThan2x == CountIn(history, {v \in Values(history) : v < TWO_X})
        countLessThanOrEqualTo1_20x == CountIn(history, {v \in Values(history) : v <= ONE_POINT_TWO_X})
        lastNValuesForStableRule == SliceLast(history, STABLE_HISTORY_COUNT)
    IN  IF currentHistoryLength < MIN_HISTORY_LENGTH THEN PredictionResult("LOW")
        ELSE IF history[Len(history)] > COOLDOWN_THRESHOLD_GT_5X THEN PredictionResult("COOLDOWN")
        ELSE IF /\ currentHistoryLength >= BREAKOUT_THRESHOLD_COUNT_LT_2X
                /\ countLessThan2x >= BREAKOUT_THRESHOLD_COUNT_LT_2X
                /\ countLessThanOrEqualTo1_20x >= BREAKOUT_THRESHOLD_COUNT_LTE_1_2X
             THEN PredictionResult("BREAKOUT")
        ELSE IF /\ \A i \in 1..Len(lastNValuesForStableRule) :
                      /\ lastNValuesForStableRule[i] >= STABLE_LOWER_BOUND
                      /\ lastNValuesForStableRule[i] <= STABLE_UPPER_BOUND
             THEN PredictionResult("STABLE")
        ELSE PredictionResult("LOW")

\* variant: the BREAKOUT counts taken over the last five entries only
analyzeHistory_BreakoutSuffix(history) ==
    LET currentHistoryLength == Len(history)
        recent == SliceLast(history, BREAKOUT_THRESHOLD_COUNT_LT_2X)
        countLessThan2x == CountIn(recent, {v \in Values(history) : v < TWO_X})
        countLessThanOrEqualTo1_20x == CountIn(recent, {v \in Values(history) : v <= ONE_POINT_TWO_X})
        lastNValuesForStableRule == SliceLast(history, STABLE_HISTORY_COUNT)
    IN  IF currentHistoryLength < MIN_HISTORY_LENGTH THEN PredictionResult("LOW")
        ELSE IF history[Len(history)] > COOLDOWN_THRESHOLD_GT_5X THEN PredictionResult("COOLDOWN")
        ELSE IF /\ currentHistoryLength >= BREAKOUT_THRESHOLD_COUNT_LT_2X
                /\ countLessThan2x >= BREAKOUT_THRESHOLD_COUNT_LT_2X
                /\ countLessThanOrEqualTo1_20x >= BREAKOUT_THRESHOLD_COUNT_LTE_1_2X
             THEN PredictionResult("BREAKOUT")
        ELSE IF /\ currentHistoryLength >= STABLE_HISTORY_COUNT
                /\ Len(lastNValuesForStableRule) = STABLE_HISTORY_COUNT
                /\ \A i \in 1..Len(lastNValuesForStableRule) :
                      /\ lastNValuesForStableRule[i] >= STABLE_LOWER_BOUND
                      /\ lastNValuesForStableRule[i] <= STABLE_UPPER_BOUND
             THEN PredictionResult("STABLE")
        ELSE PredictionResult("LOW")

\* variant: four entries below 2x are enough for BREAKOUT
analyzeHistory_BreakoutFourLow(history) ==
    LET currentHistoryLength == Len(history)
        countLessThan2x == CountIn(history, {v \in Values(history) : v < TWO_X})
        countLessThanOrEqualTo1_20x == CountIn(history, {v \in Values(history) : v <= ONE_POINT_TWO_X})
        lastNValuesForStableRule == SliceLast(history, STABLE_HISTORY_COUNT)
    IN  IF currentHistoryLength < MIN_HISTORY_LENGTH THEN PredictionResult("LOW")
        ELSE IF history[Len(history)] > COOLDOWN_THRESHOLD_GT_5X THEN PredictionResult("COOLDOWN")
        ELSE IF /\ currentHistoryLength >= BREAKOUT_THRESHOLD_COUNT_LT_2X
                /\ countLessThan2x >= BREAKOUT_THRESHOLD_COUNT_LT_2X - 1
                /\ countLessThanOrEqualTo1_20x >= BREAKOUT_THRESHOLD_COUNT_LTE_1_2X
             THEN PredictionResult("BREAKOUT")
        ELSE IF /\ currentHistoryLength >= STABLE_HISTORY_COUNT
                /\ Len(lastNValuesForStableRule) = STABLE_HISTORY_COUNT
                /\ \A i \in 1..Len(lastNValuesForStableRule) :
                      /\ lastNValuesForStableRule[i] >= STABLE_LOWER_BOUND
                      /\ lastNValuesForStableRule[i] <= STABLE_UPPER_BOUND
             THEN PredictionResult("STABLE")
        ELSE PredictionResult("LOW")

analyzeHistory(history) ==
    LET currentHistoryLength == Len(history)
        countLessThan2x == CountIn(history, {v \in Values(history) : v < TWO_X})
        countLessThanOrEqualTo1_20x == CountIn(history, {v \in Values(history) : v <= ONE_POINT_TWO_X})
        lastNValuesForStableRule == SliceLast(history, STABLE_HISTORY_COUNT)
    IN  IF currentHistoryLength < MIN_HISTORY_LENGTH THEN PredictionResult("LOW")
        ELSE IF history[Len(history)] > COOLDOWN_THRESHOLD_GT_5X THEN PredictionResult("COOLDOWN")
        ELSE IF /\ currentHistoryLength >= BREAKOUT_THRESHOLD_COUNT_LT_2X
                /\ countLessThan2x >= BREAKOUT_THRESHOLD_COUNT_LT_2X
                /\ countLessThanOrEqualTo1_20x >= BREAKOUT_THRESHOLD_COUNT_LTE_1_2X
             THEN PredictionResult("BREAKOUT")
        ELSE IF /\ currentHistoryLength >= STABLE_HISTORY_COUNT
                /\ Len(lastNValuesForStableRule) = STABLE_HISTORY_COUNT
                /\ \A i \in 1..Len(lastNValuesForStableRule) :
                      /\ lastNValuesForStableRule[i] >= STABLE_LOWER_BOUND
                      /\ lastNValuesForStableRule[i] <= STABLE_UPPER_BOUND
             THEN PredictionResult("STABLE")
        ELSE PredictionResult("LOW")

----------------------------------------------------------------------------
(* App.tsx: validateAndParseInput and the string functions it calls *)

\* the characters String.prototype.trim and parseFloat skip; the inputs use the space only
WhiteSpace == {" "}

Digits == {"0", "1", "2", "3", "4", "5", "6", "7", "8", "9"}

DigitValue(c) ==
    CASE c = "0" -> 0 [] c = "1" -> 1 [] c = "2" -> 2 [] c = "3" -> 3 [] c = "4" -> 4
      [] c = "5" -> 5 [] c = "6" -> 6 [] c = "7" -> 7 [] c = "8" -> 8 [] c = "9" -> 9

\* input.split(','): "" splits into [""]
RECURSIVE Split(_)
Split(str) ==
    IF \A i \in 1..Len(str) : str[i] # ","
    THEN <<str>>
    ELSE LET i == CHOOSE k \in 1..Len(str) : str[k] = "," /\ \A j \in 1..(k - 1) : str[j] # ","
         IN  <<SubSeq(str, 1, i - 1)>> \o Split(SubSeq(str, i + 1, Len(str)))

RECURSIVE TrimStart(_)
TrimStart(str) ==
    IF str # <<>> /\ Head(str) \in WhiteSpace THEN TrimStart(Tail(str)) ELSE str

RECURSIVE TrimEnd(_)
TrimEnd(str) ==
    IF str # <<>> /\ str[Len(str)] \in WhiteSpace THEN TrimEnd(SubSeq(str, 1, Len(str) - 1)) ELSE str

\* val.trim()
Trim(str) == TrimEnd(TrimStart(str))

\* the longest prefix of str made of digits
RECURSIVE DigitRun(_)
DigitRun(str) ==
    IF str # <<>> /\ Head(str) \in Digits THEN <<Head(str)>> \o DigitRun(Tail(str)) ELSE <<>>

\* the integer a run of digits denotes
RECURSIVE DigitsToInt(_)
DigitsToInt(digits) ==
    IF digits = <<>> THEN 0
    ELSE 10 * DigitsToInt(SubSeq(digits, 1, Len(digits) - 1)) + DigitValue(digits[Len(digits)])

\* the fractional digits in hundredths; the inputs have at most two of them
FractionToHundredths(digits) ==
    CASE Len(digits) = 0 -> 0
      [] Len(digits) = 1 -> 10 * DigitValue(digits[1])
      [] OTHER -> 10 * DigitValue(digits[1]) + DigitValue(digits[2])

\* parseFloat(val): skips leading white space, reads the longest prefix that
\* is a decimal literal (sign, digits, '.', digits) and ignores the rest; NaN
\* when there is no such prefix.  Exponents and "Infinity" are not among the
\* characters of the inputs.  -0 is 0: the source only tests < 0 and === 0.
parseFloat(val) ==
    LET str == TrimStart(val)
        signed == str # <<>> /\ Head(str) \in {"-", "+"}
        sign == IF str # <<>> /\ Head(str) = "-" THEN -1 ELSE 1
        body == IF signed THEN Tail(str) ELSE str
        intDigits == DigitRun(body)
        afterInt == SubSeq(body, Len(intDigits) + 1, Len(body))
        hasDot == afterInt # <<>> /\ Head(afterInt) = "."
        fracDigits == IF hasDot THEN DigitRun(Tail(afterInt)) ELSE <<>>
    IN  IF Len(intDigits) + Len(fracDigits) = 0
        THEN [isNaN |-> TRUE, value |-> 0]
        ELSE [isNaN |-> FALSE,
              value |-> sign * (100 * DigitsToInt(intDigits) + FractionToHundredths(fracDigits))]

\* `Please enter exactly ${selectedHistoryLength} results separated by commas.`
ErrWrongCount(n) == [message |-> "Please enter exactly N results separated by commas.", N |-> n]

ErrNotANumber == [message |-> "Invalid input. Please ensure all values are numbers (e.g., 1.03, 2.5)."]

ErrNegativeValue == [message |-> "Multiplier values cannot be negative."]

ErrZeroValue == [message |-> "Multiplier values must be greater than 0 (typically >= 1.00)."]

\* the return value null of validateAndParseInput
ParsedNull == [tag |-> "null"]

\* a returned number[]
ParsedNumbers(numbers) == [tag |-> "numbers", numbers |-> numbers]

\* variant: empty pieces are kept
SplitValues_NoFilter(input) ==
    LET pieces == Split(input)
    IN  [i \in 1..Len(pieces) |-> Trim(pieces[i])]

\* input.split(',').map(val => val.trim()).filter(val => val !== '')
SplitValues(input) ==
    LET pieces == Split(input)
        trimmed == [i \in 1..Len(pieces) |-> Trim(pieces[i])]
    IN  SelectSeq(trimmed, LAMBDA val : val # <<>>)

\* variant: the zero check ahead of the negativity check
validateAndParseInput_ZeroBeforeNegative(input, requiredLength) ==
    LET values == SplitValues(input)
        parsed == [i \in 1..Len(values) |-> parseFloat(values[i])]
        numbers == [i \in 1..Len(values) |-> parsed[i].value]
    IN  IF Len(values) # requiredLength
        THEN [error |-> ErrWrongCount(requiredLength), result |-> ParsedNull]
        ELSE IF \E i \in 1..Len(parsed) : parsed[i].isNaN
        THEN [error |-> ErrNotANumber, result |-> ParsedNull]
        ELSE IF \E i \in 1..Len(numbers) : numbers[i] = 0
        THEN [error |-> ErrZeroValue, result |-> ParsedNull]
        ELSE IF \E i \in 1..Len(numbers) : numbers[i] < 0
        THEN [error |-> ErrNegativeValue, result |-> ParsedNull]
        ELSE [error |-> Null, result |-> ParsedNumbers(numbers)]

\* variant: the zero check sets the error but does not return null
validateAndParseInput_NoReturnOnZero(input, requiredLength) ==
    LET values == SplitValues(input)
        parsed == [i \in 1..Len(values) |-> parseFloat(values[i])]
        numbers == [i \in 1..Len(values) |-> parsed[i].value]
    IN  IF Len(values) # requiredLength
        THEN [error |-> ErrWrongCount(requiredLength), result |-> ParsedNull]
        ELSE IF \E i \in 1..Len(parsed) : parsed[i].isNaN
        THEN [error |-> ErrNotANumber, result |-> ParsedNull]
        ELSE IF \E i \in 1..Len(numbers) : numbers[i] < 0
        THEN [error |-> ErrNegativeValue, result |-> ParsedNull]
        ELSE IF \E i \in 1..Len(numbers) : numbers[i] = 0
        THEN [error |-> ErrZeroValue, result |-> ParsedNumbers(numbers)]
        ELSE [error |-> Null, result |-> ParsedNumbers(numbers)]

\* variant: only too many pieces are a wrong count
validateAndParseInput_AtMostCount(input, requiredLength) ==
    LET values == SplitValues(input)
        parsed == [i \in 1..Len(values) |-> parseFloat(values[i])]
        numbers == [i \in 1..Len(values) |-> parsed[i].value]
    IN  IF Len(values) > requiredLength
        THEN [error |-> ErrWrongCount(requiredLength), result |-> ParsedNull]
        ELSE IF \E i \in 1..Len(parsed) : parsed[i].isNaN
        THEN [error |-> ErrNotANumber, result |-> ParsedNull]
        ELSE IF \E i \in 1..Len(numbers) : numbers[i] < 0
        THEN [error |-> ErrNegativeValue, result |-> ParsedNull]
        ELSE IF \E i \in 1..Len(numbers) : numbers[i] = 0
        THEN [error |-> ErrZeroValue, result |-> ParsedNull]
        ELSE [error |-> Null, result |-> ParsedNumbers(numbers)]

\* validateAndParseInput: the error it sets and the value it returns
validateAndParseInput(input, requiredLength) ==
    LET values == SplitValues(input)
        parsed == [i \in 1..Len(values) |-> parseFloat(values[i])]
        numbers == [i \in 1..Len(values) |-> parsed[i].value]
    IN  IF Len(values) # requiredLength
        THEN [error |-> ErrWrongCount(requiredLength), result |-> ParsedNull]
        ELSE IF \E i \in 1..Len(parsed) : parsed[i].isNaN
        THEN [error |-> ErrNotANumber, result |-> ParsedNull]
        ELSE IF \E i \in 1..Len(numbers) : numbers[i] < 0
        THEN [error |-> ErrNegativeValue, result |-> ParsedNull]
        ELSE IF \E i \in 1..Len(numbers) : numbers[i] = 0
        THEN [error |-> ErrZeroValue, result |-> ParsedNull]
        ELSE [error |-> Null, result |-> ParsedNumbers(numbers)]

\* InputForm: const historyLengthOptions = [2, 3, 6]
historyLengthOptions == {2, 3, 6}

\* values.join(',')
RECURSIVE Join(_)
Join(pieces) ==
    IF pieces = <<>> THEN <<>>
    ELSE IF Len(pieces) = 1 THEN pieces[1]
    ELSE pieces[1] \o <<",">> \o Join(Tail(pieces))

----------------------------------------------------------------------------
(* validateAndParseInput as a pure function: every input of up to          *)
(* MaxPieces comma-separated pieces is validated once, for every required  *)
(* length.                                                                 *)

MaxPieces == 4

\* "1.0"  " 2.0"  " "  ""  "0"  "-1"  "abc"  "1.5abc"
ValidatePieces ==
    { <<"1", ".", "0">>, <<" ", "2", ".", "0">>, <<" ">>, <<>>, <<"0">>, <<"-", "1">>,
      <<"a", "b", "c">>, <<"1", ".", "5", "a", "b", "c">> }

ValidateInputs == {Join(p) : p \in UNION {[1..n -> ValidatePieces] : n \in 0..MaxPieces}}

InitValidate ==
    /\ historyInput \in ValidateInputs
    /\ selectedHistoryLength \in historyLengthOptions
    /\ parsedHistory = [tag |-> "pending"]
    /\ error = Null
    /\ prediction = Null
    /\ isLoading = FALSE
    /\ showFeedbackOptions = FALSE
    /\ lastPredictionForFeedback = Null
    /\ feedbackMessage = Null
    /\ predictTimer = <<>>
    /\ feedbackTimers = 0
    /\ analyzeArg = NotCalled

ValidateCall ==
    /\ parsedHistory.tag = "pending"
    /\ LET out == validateAndParseInput(historyInput, selectedHistoryLength)
       IN  /\ error' = out.error
           /\ parsedHistory' = out.result
    /\ UNCHANGED <<historyInput, prediction, isLoading, selectedHistoryLength, showFeedbackOptions,
                   lastPredictionForFeedback, feedbackMessage, predictTimer, feedbackTimers,
                   analyzeArg>>

NextValidate == ValidateCall

SpecValidate == InitValidate /\ [][NextValidate]_vars

----------------------------------------------------------------------------
(* analyzeHistory as a pure function: every history over the threshold     *)
(* values, of length 0..MaxHistLen, is analysed once.                      *)

MaxHistLen == 6

\* 1.20 1.99 2.00 4.00 5.00 5.01: both sides of every threshold
SampleValues == {120, 199, 200, 400, 500, 501}

Histories == UNION {[1..n -> SampleValues] : n \in 0..MaxHistLen}

InitAnalyze ==
    /\ analyzeArg \in {[tag |-> "pending", history |-> h] : h \in Histories}
    /\ prediction = Null
    /\ historyInput = <<>>
    /\ error = Null
    /\ isLoading = FALSE
    /\ selectedHistoryLength = DEFAULT_HISTORY_LENGTH
    /\ showFeedbackOptions = FALSE
    /\ lastPredictionForFeedback = Null
    /\ feedbackMessage = Null
    /\ predictTimer = <<>>
    /\ feedbackTimers = 0
    /\ parsedHistory = NotCalled

AnalyzeCall ==
    /\ analyzeArg.tag = "pending"
    /\ prediction' = analyzeHistory(analyzeArg.history)
    /\ analyzeArg' = [tag |-> "called", history |-> analyzeArg.history]
    /\ UNCHANGED <<historyInput, error, isLoading, selectedHistoryLength, showFeedbackOptions,
                   lastPredictionForFeedback, feedbackMessage, predictTimer, feedbackTimers,
                   parsedHistory>>

NextAnalyze == AnalyzeCall

SpecAnalyze == InitAnalyze /\ [][NextAnalyze]_vars

----------------------------------------------------------------------------
(* App.tsx: the App component.  A handler and the effect its state change  *)
(* triggers are one step: React batches the handler's updates and flushes  *)
(* the effect before the next event is handled.                            *)

MaxFeedbackTimers == 2

\* "1"  "3"
BasePieces == { <<"1">>, <<"3">> }

\* "6"  "0"  "-1"  "abc"  "1.5abc"  " "
OddPieces ==
    { <<"6">>, <<"0">>, <<"-", "1">>, <<"a", "b", "c">>, <<"1", ".", "5", "a", "b", "c">>, <<" ">> }

\* what the user types: a base piece repeated 2, 3 or 6 times, as it is or
\* with its first or its last piece replaced by an odd one, or nothing but a blank
AppInputs ==
    { Join([i \in 1..n |-> b]) : n \in historyLengthOptions, b \in BasePieces }
    \cup UNION { { Join([i \in 1..n |-> IF i = k THEN o ELSE b]) :
                      b \in BasePieces, o \in OddPieces, k \in {1, n} } :
                 n \in historyLengthOptions }
    \cup { <<>>, <<" ">> }

\* handleFeedback's two messages
FeedbackText(wasCorrect) ==
    IF wasCorrect
    THEN [message |-> "Thanks! Glad the AI was on point."]
    ELSE [message |-> "Thanks for the feedback! The AI is always learning (figuratively!)."]

Init ==
    /\ historyInput = <<>>
    /\ prediction = Null
    /\ error = Null
    /\ isLoading = FALSE
    /\ selectedHistoryLength = DEFAULT_HISTORY_LENGTH
    /\ showFeedbackOptions = FALSE
    /\ lastPredictionForFeedback = Null
    /\ feedbackMessage = Null
    /\ predictTimer = <<>>
    /\ feedbackTimers = 0
    /\ parsedHistory = NotCalled
    /\ analyzeArg = NotCalled

\* the text input's onChange (setHistoryInput) and the effect on [historyInput];
\* the input is disabled while loading
InputChange(value) ==
    /\ ~isLoading
    /\ value # historyInput
    /\ historyInput' = value
    /\ prediction' = Null
    /\ showFeedbackOptions' = FALSE
    /\ feedbackMessage' = Null
    /\ error' = Null
    /\ parsedHistory' = NotCalled
    /\ analyzeArg' = NotCalled
    /\ UNCHANGED <<isLoading, selectedHistoryLength, lastPredictionForFeedback,
                   predictTimer, feedbackTimers>>

\* a radio's onChange; the radios are disabled while loading
handleHistoryLengthChange(length) ==
    /\ ~isLoading
    /\ length # selectedHistoryLength
    /\ selectedHistoryLength' = length
    /\ historyInput' = <<>>
    /\ error' = Null
    /\ prediction' = Null
    /\ showFeedbackOptions' = FALSE
    /\ feedbackMessage' = Null
    /\ parsedHistory' = NotCalled
    /\ analyzeArg' = NotCalled
    /\ UNCHANGED <<isLoading, lastPredictionForFeedback, predictTimer, feedbackTimers>>

\* variant: the submit button stays enabled while loading
handlePredict_NotDisabled ==
    /\ Trim(historyInput) # <<>>
    /\ isLoading' = TRUE
    /\ error' = Null
    /\ prediction' = Null
    /\ showFeedbackOptions' = FALSE
    /\ feedbackMessage' = Null
    /\ predictTimer' = Append(predictTimer, [historyInput |-> historyInput,
                                             selectedHistoryLength |-> selectedHistoryLength])
    /\ parsedHistory' = NotCalled
    /\ analyzeArg' = NotCalled
    /\ UNCHANGED <<historyInput, selectedHistoryLength, lastPredictionForFeedback, feedbackTimers>>

\* the form's onSubmit; the button is disabled while loading or when the input is blank
handlePredict ==
    /\ ~isLoading
    /\ Trim(historyInput) # <<>>
    /\ isLoading' = TRUE
    /\ error' = Null
    /\ prediction' = Null
    /\ showFeedbackOptions' = FALSE
    /\ feedbackMessage' = Null
    /\ predictTimer' = Append(predictTimer, [historyInput |-> historyInput,
                                             selectedHistoryLength |-> selectedHistoryLength])
    /\ parsedHistory' = NotCalled
    /\ analyzeArg' = NotCalled
    /\ UNCHANGED <<historyInput, selectedHistoryLength, lastPredictionForFeedback, feedbackTimers>>

\* variant: the callback does not end loading
PredictTimerFire_KeepsLoading ==
    /\ predictTimer # <<>>
    /\ LET out == validateAndParseInput(Head(predictTimer).historyInput,
                                        Head(predictTimer).selectedHistoryLength)
       IN  /\ parsedHistory' = out.result
           /\ error' = out.error
           /\ IF out.result.tag = "numbers"
              THEN LET result == analyzeHistory(out.result.numbers)
                   IN  /\ analyzeArg' = [tag |-> "called", history |-> out.result.numbers]
                       /\ prediction' = result
                       /\ lastPredictionForFeedback' = result
                       /\ showFeedbackOptions' = TRUE
              ELSE /\ analyzeArg' = NotCalled
                   /\ prediction' = Null
                   /\ showFeedbackOptions' = FALSE
                   /\ UNCHANGED lastPredictionForFeedback
    /\ isLoading' = isLoading
    /\ predictTimer' = Tail(predictTimer)
    /\ UNCHANGED <<historyInput, selectedHistoryLength, feedbackMessage, feedbackTimers>>

\* variant: the callback does not store the result for the feedback section
PredictTimerFire_NoStore ==
    /\ predictTimer # <<>>
    /\ LET out == validateAndParseInput(Head(predictTimer).historyInput,
                                        Head(predictTimer).selectedHistoryLength)
       IN  /\ parsedHistory' = out.result
           /\ error' = out.error
           /\ IF out.result.tag = "numbers"
              THEN LET result == analyzeHistory(out.result.numbers)
                   IN  /\ analyzeArg' = [tag |-> "called", history |-> out.result.numbers]
                       /\ prediction' = result
                       /\ lastPredictionForFeedback' = lastPredictionForFeedback
                       /\ showFeedbackOptions' = TRUE
              ELSE /\ analyzeArg' = NotCalled
                   /\ prediction' = Null
                   /\ showFeedbackOptions' = FALSE
                   /\ UNCHANGED lastPredictionForFeedback
    /\ isLoading' = FALSE
    /\ predictTimer' = Tail(predictTimer)
    /\ UNCHANGED <<historyInput, selectedHistoryLength, feedbackMessage, feedbackTimers>>

\* the callback handlePredict handed to setTimeout(..., 700)
PredictTimerFire ==
    /\ predictTimer # <<>>
    /\ LET out == validateAndParseInput(Head(predictTimer).historyInput,
                                        Head(predictTimer).selectedHistoryLength)
       IN  /\ parsedHistory' = out.result
           /\ error' = out.error
           /\ IF out.result.tag = "numbers"
              THEN LET result == analyzeHistory(out.result.numbers)
                   IN  /\ analyzeArg' = [tag |-> "called", history |-> out.result.numbers]
                       /\ prediction' = result
                       /\ lastPredictionForFeedback' = result
                       /\ showFeedbackOptions' = TRUE
              ELSE /\ analyzeArg' = NotCalled
                   /\ prediction' = Null
                   /\ showFeedbackOptions' = FALSE
                   /\ UNCHANGED lastPredictionForFeedback
    /\ isLoading' = FALSE
    /\ predictTimer' = Tail(predictTimer)
    /\ UNCHANGED <<historyInput, selectedHistoryLength, feedbackMessage, feedbackTimers>>

\* a click on one of the two feedback buttons, rendered when
\* !isLoading && showFeedbackOptions && lastPredictionForFeedback
handleFeedback(wasCorrect) ==
    /\ ~isLoading
    /\ showFeedbackOptions
    /\ lastPredictionForFeedback # Null
    /\ feedbackTimers < MaxFeedbackTimers
    /\ feedbackMessage' = FeedbackText(wasCorrect)
    /\ showFeedbackOptions' = FALSE
    /\ feedbackTimers' = feedbackTimers + 1
    /\ UNCHANGED <<historyInput, prediction, error, isLoading, selectedHistoryLength,
                   lastPredictionForFeedback, predictTimer, parsedHistory, analyzeArg>>

\* the callback handleFeedback handed to setTimeout(..., 3000)
FeedbackTimerFire ==
    /\ feedbackTimers > 0
    /\ feedbackMessage' = Null
    /\ feedbackTimers' = feedbackTimers - 1
    /\ UNCHANGED <<historyInput, prediction, error, isLoading, selectedHistoryLength,
                   showFeedbackOptions, lastPredictionForFeedback, predictTimer,
                   parsedHistory, analyzeArg>>

Next ==
    \/ \E value \in AppInputs : InputChange(value)
    \/ \E length \in historyLengthOptions : handleHistoryLengthChange(length)
    \/ handlePredict
    \/ PredictTimerFire
    \/ \E wasCorrect \in BOOLEAN : handleFeedback(wasCorrect)
    \/ FeedbackTimerFire

Spec == Init /\ [][Next]_vars

\* the oldest pending prediction timer runs; within Next this is a step of
\* PredictTimerFire and of no other action, and it is enabled exactly when
\* PredictTimerFire is
PredictTimerRuns == predictTimer # <<>> /\ predictTimer' = Tail(predictTimer)

\* a callback handed to setTimeout is run: nothing cancels the prediction timer
SpecFair == Spec /\ WF_predictTimer(PredictTimerRuns)

----------------------------------------------------------------------------
(* Claims about analyzeHistory, checked under SpecAnalyze *)

\* the history analyzeHistory was invoked with
CalledHistory == analyzeArg.history

Analyzed == analyzeArg.tag = "called"

\* how many entries of h satisfy a bound, counted by index
NumBelow(h, bound) == Cardinality({i \in 1..Len(h) : h[i] < bound})

NumAtMost(h, bound) == Cardinality({i \in 1..Len(h) : h[i] <= bound})

CooldownRule(h) == h[Len(h)] > 500

BreakoutRule(h) == Len(h) >= 5 /\ NumBelow(h, 200) >= 5 /\ NumAtMost(h, 120) >= 2

StableRule(h) == Len(h) >= 3 /\ \A i \in (Len(h) - 2)..Len(h) : 200 <= h[i] /\ h[i] <= 400

FirstMatch(h) ==
    IF CooldownRule(h) THEN "COOLDOWN"
    ELSE IF BreakoutRule(h) THEN "BREAKOUT"
    ELSE IF StableRule(h) THEN "STABLE"
    ELSE "LOW"

\* C1: for every history of length >= 2 with all entries > 0, analyzeHistory
\* returns the category of the first matching rule in the order COOLDOWN,
\* BREAKOUT (counts over the whole history), STABLE (last 3 entries within
\* [2.0, 4.0], bounds inclusive), else LOW.
C1_FirstMatchWins ==
    (Analyzed /\ Len(CalledHistory) >= 2 /\ \A i \in 1..Len(CalledHistory) : CalledHistory[i] > 0)
        => prediction.category = FirstMatch(CalledHistory)

\* the spec's STABLE example shape: a first entry outside [2,4], the last three on the bounds
C1_Witness ==
    /\ Analyzed
    /\ CalledHistory = <<500, 200, 400, 400>>
    /\ prediction.category = "STABLE"

\* C3: for every history of length >= 2 whose last value is > 5.0 the result
\* is COOLDOWN, whatever the other entries, also when the BREAKOUT counts hold.
C3_CooldownPriority ==
    (Analyzed /\ Len(CalledHistory) >= 2 /\ CalledHistory[Len(CalledHistory)] > 500)
        => prediction = PredictionResult("COOLDOWN")

\* five entries < 2.0, two of them <= 1.20, and a last value > 5.0
C3_Witness ==
    /\ Analyzed
    /\ CalledHistory = <<120, 120, 199, 199, 199, 501>>
    /\ BreakoutRule(CalledHistory)
    /\ prediction.category = "COOLDOWN"

\* C4 as stated: for every history of length >= 1, length 1 included, whose
\* last value is > 5.0, analyzeHistory returns COOLDOWN.
C4_Original ==
    (Analyzed /\ Len(CalledHistory) >= 1 /\ CalledHistory[Len(CalledHistory)] > 500)
        => prediction.category = "COOLDOWN"

\* C4 amended: the length guard comes before the COOLDOWN rule: a history of
\* length < 2 yields LOW even when its last value is > 5.0, and from length 2
\* on a last value > 5.0 yields COOLDOWN before any other rule is looked at.
C4_CooldownAfterLengthGuard ==
    Analyzed =>
        /\ Len(CalledHistory) < 2 => prediction.category = "LOW"
        /\ (Len(CalledHistory) >= 2 /\ CalledHistory[Len(CalledHistory)] > 500)
              => prediction.category = "COOLDOWN"

C4_Witness ==
    /\ Analyzed
    /\ CalledHistory = <<501>>
    /\ prediction.category = "LOW"

----------------------------------------------------------------------------
(* Claims about validateAndParseInput *)

\* validateAndParseInput has returned
Validated == parsedHistory.tag \in {"null", "numbers"}

\* the positions of the commas of a string
Commas(str) == {i \in 1..Len(str) : str[i] = ","}

\* the position of the k-th comma
NthComma(str, k) == CHOOSE i \in Commas(str) : Cardinality({j \in Commas(str) : j < i}) = k - 1

\* the text between the (k-1)-th and the k-th comma
Field(str, k) ==
    SubSeq(str,
           IF k = 1 THEN 1 ELSE NthComma(str, k - 1) + 1,
           IF k = Cardinality(Commas(str)) + 1 THEN Len(str) ELSE NthComma(str, k) - 1)

\* a field without its leading and trailing blanks
Stripped(field) ==
    LET solid == {i \in 1..Len(field) : field[i] # " "}
    IN  IF solid = {} THEN <<>>
        ELSE SubSeq(field, CHOOSE i \in solid : \A j \in solid : i <= j,
                           CHOOSE i \in solid : \A j \in solid : i >= j)

\* the non-empty trimmed comma-separated pieces of a string, in input order
PiecesOf(str) ==
    SelectSeq([k \in 1..(Cardinality(Commas(str)) + 1) |-> Stripped(Field(str, k))],
              LAMBDA piece : piece # <<>>)

Unsigned(piece) == IF piece # <<>> /\ piece[1] \in {"-", "+"} THEN Tail(piece) ELSE piece

\* the piece starts with a number: parsing it does not fail
StartsWithNumber(piece) ==
    LET body == Unsigned(piece)
    IN  /\ body # <<>>
        /\ \/ body[1] \in Digits
           \/ body[1] = "." /\ Len(body) >= 2 /\ body[2] \in Digits

\* the piece is a number from its first character to its last
IsNumber(piece) ==
    LET body == Unsigned(piece)
    IN  /\ \A i \in 1..Len(body) : body[i] \in Digits \cup {"."}
        /\ Cardinality({i \in 1..Len(body) : body[i] = "."}) <= 1
        /\ \E i \in 1..Len(body) : body[i] \in Digits

FirstFailure(str, n) ==
    LET pieces == PiecesOf(str)
    IN  IF Len(pieces) # n THEN ErrWrongCount(n)
        ELSE IF \E i \in 1..Len(pieces) : ~StartsWithNumber(pieces[i]) THEN ErrNotANumber
        ELSE IF \E i \in 1..Len(pieces) : parseFloat(pieces[i]).value < 0 THEN ErrNegativeValue
        ELSE IF \E i \in 1..Len(pieces) : parseFloat(pieces[i]).value = 0 THEN ErrZeroValue
        ELSE Null

\* C6: validateAndParseInput reports exactly one failure, the first that
\* fires in the order WrongCount, NotANumber, NegativeValue, ZeroValue;
\* ZeroValue is reported only when the count, parse and negativity checks
\* all passed.
C6_FirstFailureReported ==
    Validated =>
        /\ error = FirstFailure(historyInput, selectedHistoryLength)
        /\ error = ErrZeroValue =>
              LET pieces == PiecesOf(historyInput)
              IN  /\ Len(pieces) = selectedHistoryLength
                  /\ \A i \in 1..Len(pieces) :
                        StartsWithNumber(pieces[i]) /\ parseFloat(pieces[i]).value >= 0

\* "0,-1" with required length 2: a zero and a negative value, NegativeValue reported
C6_Witness ==
    /\ Validated
    /\ historyInput = <<"0", ",", "-", "1">>
    /\ selectedHistoryLength = 2
    /\ error = ErrNegativeValue

\* C7: when validateAndParseInput succeeds for required length N, the
\* returned sequence has exactly N entries, all > 0, equal to the parsed
\* non-empty trimmed pieces in input order; empty pieces are discarded before
\* the count is checked, so an input whose N non-empty pieces all parse to a
\* positive number succeeds however many empty pieces it has.
C7_SuccessReturnsPieces ==
    Validated =>
        LET pieces == PiecesOf(historyInput)
        IN  /\ parsedHistory.tag = "numbers" =>
                  /\ Len(parsedHistory.numbers) = selectedHistoryLength
                  /\ Len(pieces) = selectedHistoryLength
                  /\ \A i \in 1..Len(parsedHistory.numbers) :
                        /\ parsedHistory.numbers[i] > 0
                        /\ parsedHistory.numbers[i] = parseFloat(pieces[i]).value
            /\ ( /\ Len(pieces) = selectedHistoryLength
                 /\ \A i \in 1..Len(pieces) :
                       StartsWithNumber(pieces[i]) /\ parseFloat(pieces[i]).value > 0 )
                  => parsedHistory.tag = "numbers"

\* "1.0, , 2.0," with required length 2 succeeds with [1.0, 2.0]
C7_Witness ==
    /\ historyInput = <<"1", ".", "0", ",", " ", ",", " ", "2", ".", "0", ",">>
    /\ selectedHistoryLength = 2
    /\ parsedHistory = ParsedNumbers(<<100, 200>>)
    /\ error = Null

\* C8: an input with the right number of pieces, one of which is not
\* entirely a number, fails with NotANumber and analyzeHistory is not invoked
\* for that submission.
C8_NonNumericPieceRejected ==
    ( /\ Validated
      /\ Len(PiecesOf(historyInput)) = selectedHistoryLength
      /\ \E i \in 1..Len(PiecesOf(historyInput)) : ~IsNumber(PiecesOf(historyInput)[i]) )
        => /\ error = ErrNotANumber
           /\ parsedHistory = ParsedNull
           /\ analyzeArg = NotCalled

----------------------------------------------------------------------------
(* Claims about the App component, checked under Spec *)

ProducedCategories == {"BREAKOUT", "COOLDOWN", "STABLE", "LOW"}

\* C2: analyzeHistory returns a category in {BREAKOUT, COOLDOWN, STABLE, LOW}
\* and never NONE, so in every reachable state of the app a non-null
\* prediction (displayed or kept for feedback) never has category NONE.
C2_NeverNone ==
    /\ prediction # Null => prediction.category \in ProducedCategories
    /\ lastPredictionForFeedback # Null =>
          lastPredictionForFeedback.category \in ProducedCategories

\* a prediction made by the fallback rule is on display
C2_Witness ==
    /\ ~isLoading
    /\ Analyzed
    /\ prediction # Null
    /\ prediction.category = "LOW"

\* C9, the state part: an error is never shown together with a prediction
\* or with the feedback options.
C9_ErrorExcludesPrediction ==
    error # Null => prediction = Null /\ ~showFeedbackOptions

\* C9, the moment loading ends: when the submitted input fails validation,
\* the error message is set, prediction is null and analyzeHistory was not
\* called.
C9_FailureAtLoadingEnd ==
    (isLoading /\ ~isLoading' /\ FirstFailure(historyInput, selectedHistoryLength) # Null)
        => /\ error' = FirstFailure(historyInput, selectedHistoryLength)
           /\ prediction' = Null
           /\ ~showFeedbackOptions'
           /\ parsedHistory' = ParsedNull
           /\ analyzeArg' = NotCalled

\* C9: validation errors are terminal for the submission.
C9_ValidationErrorsTerminal ==
    [] C9_ErrorExcludesPrediction /\ [][C9_FailureAtLoadingEnd]_vars

\* a failed submission after an earlier successful one: the error is shown, no prediction
C9_Witness ==
    /\ ~isLoading
    /\ parsedHistory = ParsedNull
    /\ error = ErrZeroValue
    /\ prediction = Null
    /\ lastPredictionForFeedback # Null

\* C10: every invocation of analyzeHistory receives a history whose length
\* is the selected history length of the submit, one of 2, 3, 6, with every
\* entry > 0; the closure of a pending prediction timer holds the current
\* input and length.
C10_AnalyzeGetsValidatedHistory ==
    /\ selectedHistoryLength \in {2, 3, 6}
    /\ \A k \in 1..Len(predictTimer) :
          /\ predictTimer[k].selectedHistoryLength = selectedHistoryLength
          /\ predictTimer[k].historyInput = historyInput
    /\ Analyzed =>
          /\ Len(CalledHistory) = selectedHistoryLength
          /\ Len(CalledHistory) >= 2
          /\ \A i \in 1..Len(CalledHistory) : CalledHistory[i] > 0

\* analyzeHistory was invoked with the shortest history the app can submit
C10_Witness ==
    /\ Analyzed
    /\ selectedHistoryLength = 2
    /\ Len(CalledHistory) = 2
    /\ prediction # Null

----------------------------------------------------------------------------
(* More claims about analyzeHistory *)

\* C11: the length guards restrict the categories: a history of length 2
\* yields COOLDOWN if its last value is > 5.0 and LOW otherwise; BREAKOUT is
\* never returned for a length < 5 and STABLE never for a length < 3.
C11_LengthGuards ==
    Analyzed =>
        /\ Len(CalledHistory) = 2 =>
              prediction.category = (IF CalledHistory[2] > 500 THEN "COOLDOWN" ELSE "LOW")
        /\ Len(CalledHistory) < 5 => prediction.category # "BREAKOUT"
        /\ Len(CalledHistory) < 3 => prediction.category # "STABLE"

\* two entries, both within [2.0, 4.0], classified LOW
C11_Witness ==
    /\ Analyzed
    /\ CalledHistory = <<200, 400>>
    /\ prediction.category = "LOW"

----------------------------------------------------------------------------
(* analyzeHistory on a history and on its permutations: a history is       *)
(* analysed, and when the result is BREAKOUT two neighbouring entries are  *)
(* exchanged and the history is analysed again, as often as one likes:     *)
(* every permutation is reached.                                           *)
(* parsedHistory keeps the first history and lastPredictionForFeedback     *)
(* its result.                                                             *)

MaxPermLen == 6

\* 1.20 1.99 4.00 5.01
PermValues == {120, 199, 400, 501}

InitPermute ==
    /\ analyzeArg \in {[tag |-> "pending", history |-> h] :
                          h \in UNION {[1..n -> PermValues] : n \in 0..MaxPermLen}}
    /\ prediction = Null
    /\ historyInput = <<>>
    /\ error = Null
    /\ isLoading = FALSE
    /\ selectedHistoryLength = DEFAULT_HISTORY_LENGTH
    /\ showFeedbackOptions = FALSE
    /\ lastPredictionForFeedback = Null
    /\ feedbackMessage = Null
    /\ predictTimer = <<>>
    /\ feedbackTimers = 0
    /\ parsedHistory = NotCalled

AnalyzeOriginal ==
    /\ analyzeArg.tag = "pending"
    /\ prediction' = analyzeHistory(analyzeArg.history)
    /\ lastPredictionForFeedback' = analyzeHistory(analyzeArg.history)
    /\ parsedHistory' = ParsedNumbers(analyzeArg.history)
    /\ analyzeArg' = [tag |-> "called", history |-> analyzeArg.history]
    /\ UNCHANGED <<historyInput, error, isLoading, selectedHistoryLength, showFeedbackOptions,
                   feedbackMessage, predictTimer, feedbackTimers>>

AnalyzePermuted(i, j) ==
    /\ analyzeArg.tag = "called"
    /\ lastPredictionForFeedback.category = "BREAKOUT"
    /\ analyzeArg.history[i] # analyzeArg.history[j]
    /\ LET swapped == [analyzeArg.history EXCEPT ![i] = analyzeArg.history[j],
                                                  ![j] = analyzeArg.history[i]]
       IN  /\ prediction' = analyzeHistory(swapped)
           /\ analyzeArg' = [tag |-> "called", history |-> swapped]
    /\ UNCHANGED <<historyInput, error, isLoading, selectedHistoryLength, showFeedbackOptions,
                   lastPredictionForFeedback, feedbackMessage, predictTimer, feedbackTimers,
                   parsedHistory>>

NextPermute ==
    \/ AnalyzeOriginal
    \/ \E i \in 1..(MaxPermLen - 1) :
          i < Len(analyzeArg.history) /\ AnalyzePermuted(i, i + 1)

SpecPermute == InitPermute /\ [][NextPermute]_vars

\* C12: the BREAKOUT decision depends on the multiset of the history and on
\* the last value not exceeding 5.0 only: when a history is classified
\* BREAKOUT, every permutation of it whose last value is <= 5.0 is
\* classified BREAKOUT too.
C12_BreakoutPermutationInvariant ==
    ( /\ Analyzed
      /\ lastPredictionForFeedback.category = "BREAKOUT"
      /\ CalledHistory[Len(CalledHistory)] <= 500 )
        => prediction.category = "BREAKOUT"

\* the entry that is not low moved from the end to the front
C12_Witness ==
    /\ Analyzed
    /\ parsedHistory = ParsedNumbers(<<120, 120, 199, 199, 199, 400>>)
    /\ CalledHistory = <<400, 199, 199, 199, 120, 120>>
    /\ prediction.category = "BREAKOUT"

----------------------------------------------------------------------------
(* analyzeHistory on longer histories, over the values the BREAKOUT and    *)
(* STABLE rules tell apart.                                                *)

MaxLongLen == 8

\* 1.20 1.99 2.00 4.00 5.00
LongValues == {120, 199, 200, 400, 500}

InitLong ==
    /\ analyzeArg \in {[tag |-> "pending", history |-> h] :
                          h \in UNION {[1..n -> LongValues] : n \in 0..MaxLongLen}}
    /\ prediction = Null
    /\ historyInput = <<>>
    /\ error = Null
    /\ isLoading = FALSE
    /\ selectedHistoryLength = DEFAULT_HISTORY_LENGTH
    /\ showFeedbackOptions = FALSE
    /\ lastPredictionForFeedback = Null
    /\ feedbackMessage = Null
    /\ predictTimer = <<>>
    /\ feedbackTimers = 0
    /\ parsedHistory = NotCalled

NextLong == AnalyzeCall

SpecLong == InitLong /\ [][NextLong]_vars

\* the rule order with STABLE ahead of BREAKOUT
StableFirstMatch(h) ==
    IF CooldownRule(h) THEN "COOLDOWN"
    ELSE IF StableRule(h) THEN "STABLE"
    ELSE IF BreakoutRule(h) THEN "BREAKOUT"
    ELSE "LOW"

\* C13: for every history of length <= 7 (so for the lengths 2, 3, 6 the
\* app submits) the BREAKOUT and STABLE conditions never hold together, and
\* the result is the one the swapped order of the two rules would give.
C13_BreakoutStableDisjointUpTo7 ==
    (Analyzed /\ Len(CalledHistory) <= 7) =>
        /\ ~(BreakoutRule(CalledHistory) /\ StableRule(CalledHistory))
        /\ Len(CalledHistory) >= 2 => prediction.category = StableFirstMatch(CalledHistory)

\* at length 8 both conditions hold and the order decides
C13_Witness ==
    /\ Analyzed
    /\ CalledHistory = <<120, 120, 199, 199, 199, 200, 400, 400>>
    /\ BreakoutRule(CalledHistory)
    /\ StableRule(CalledHistory)
    /\ prediction.category = "BREAKOUT"

----------------------------------------------------------------------------
(* More claims about the App component *)

\* C14, the step that ends loading: exactly one of prediction and error is
\* set, the prediction when validation succeeded and the error when it failed.
C14_OutcomeAtLoadingEnd ==
    (isLoading /\ ~isLoading') =>
        /\ (prediction' # Null) # (error' # Null)
        /\ (prediction' # Null) <=> (parsedHistory'.tag = "numbers")

\* C14: every submit eventually completes: once isLoading is true the
\* delayed callback eventually runs and sets it back to false, and at that
\* moment exactly one of prediction and error is non-null.
C14_SubmitCompletes ==
    (isLoading ~> ~isLoading) /\ [][C14_OutcomeAtLoadingEnd]_vars

\* a submit has completed with a prediction
C14_Witness ==
    /\ ~isLoading
    /\ predictTimer = <<>>
    /\ parsedHistory.tag = "numbers"
    /\ prediction # Null
    /\ error = Null
    /\ showFeedbackOptions

\* C15: while loading, prediction and error are null, the feedback options
\* are hidden and exactly one prediction timer is pending, whose closure
\* holds the current input and length; no timer is pending otherwise, and
\* what was validated when a timer fired is the current input and length.
C15_LoadingIsExclusive ==
    /\ Len(predictTimer) <= 1
    /\ isLoading <=> (predictTimer # <<>>)
    /\ isLoading =>
          /\ prediction = Null
          /\ error = Null
          /\ ~showFeedbackOptions
          /\ Head(predictTimer).historyInput = historyInput
          /\ Head(predictTimer).selectedHistoryLength = selectedHistoryLength
    /\ Validated =>
          parsedHistory = validateAndParseInput(historyInput, selectedHistoryLength).result

\* loading while the clear-timer of an earlier feedback click is still pending
C15_Witness ==
    /\ isLoading
    /\ Len(predictTimer) = 1
    /\ feedbackTimers > 0
    /\ lastPredictionForFeedback # Null

\* C16: whenever the feedback options are shown, a prediction is displayed
\* and lastPredictionForFeedback is that prediction.
C16_FeedbackForDisplayedPrediction ==
    showFeedbackOptions =>
        /\ prediction # Null
        /\ lastPredictionForFeedback = prediction

\* the options are offered again for a second prediction, after an earlier feedback click
C16_Witness ==
    /\ showFeedbackOptions
    /\ ~isLoading
    /\ prediction # Null
    /\ feedbackTimers > 0

\* a displayed message was set by the latest click, whose clear-timer is the
\* youngest pending one; the timers have the same delay and run oldest first
MessageHasTimer == feedbackMessage # Null => feedbackTimers >= 1

\* C17: a feedback message disappears only when the user submits, edits the
\* input or changes the length, or when its own clear-timer fires: a
\* clear-timer of an earlier click (one that fires while a younger timer is
\* pending) never clears it.
C17_OnlyOwnTimerClears ==
    [][ (feedbackMessage # Null /\ feedbackMessage' = Null) =>
           \/ isLoading'
           \/ historyInput' # historyInput
           \/ selectedHistoryLength' # selectedHistoryLength
           \/ feedbackTimers = 1 /\ feedbackTimers' = 0 ]_vars

====
